---- MODULE Spec2Model ----
(***************************************************************************)
(* Model of the item API of src/lambda_function/main.py: the four          *)
(* operation handlers (create, get, update, delete) behind the top-level   *)
(* handler, the DynamoDB table they share, and the callers that invoke     *)
(* them concurrently.  A request is interleaved with the requests of other *)
(* callers at the granularity of single storage calls.                     *)
(* SpecEvent and SpecSink look at one invocation of handler(event,         *)
(* context) from entry to exit: its routing, and what failing calls of the *)
(* metric sink (SpecEvent) and of the log sink too (SpecSink) do to it.    *)
(***************************************************************************)
EXTENDS Integers, Sequences, FiniteSets, TLC

\* ------------------------------------------------------------------ bounds
MaxItems    == 2   \* identifiers uuid4 can hand out
MaxClock    == 2   \* time.time() reads 1..MaxClock (whole seconds)
MaxBodyKeys == 2   \* keys of a request body object
NumCallers  == 2   \* callers with a request in flight
MaxWrites   == 3   \* Create, Update and Delete requests the callers send in all

Callers == 1..NumCallers

\* ------------------------------------------------------------------ values
\* A JSON / Python value is a pair <<type, payload>>.
Str(s)    == <<"str", s>>      \* a string
Num(n)    == <<"num", n>>      \* an int
Dec(n)    == <<"dec", n>>      \* decimal.Decimal, what the table returns for a number
DecStr(n) == <<"decstr", n>>   \* the string str(Decimal(n)): the digits of n

EmptyMap == [k \in {} |-> Str("")]

\* str(uuid.uuid4()): the i-th identifier generated.
Uuid(i) == "uuid-" \o ToString(i)
UuidPool == {Uuid(i) : i \in 1..MaxItems}

\* An identifier a caller makes up itself; uuid4 never generates it.
ForeignId == "custom-id"

\* ------------------------------------------------------------ request data
BodyKeys == {"name", "description", "itemId", "createdAt", "updatedAt"}

\* Values a caller may send under a key.
BodyValues(k) ==
    CASE k = "name"        -> {Str("A")}
      [] k = "description" -> {Str("B")}
      [] k = "itemId"      -> {Str(i) : i \in UuidPool}
      [] k = "createdAt"   -> {Num(MaxClock + 1)}
      [] OTHER             -> {Num(0)}

\* The JSON objects a caller may send: at most MaxBodyKeys keys.
Objects ==
    UNION { { f \in [K -> UNION {BodyValues(k) : k \in K}] :
                \A k \in K : f[k] \in BodyValues(k) } :
            K \in {S \in SUBSET BodyKeys : Cardinality(S) <= MaxBodyKeys} }

\* event['body'] as it arrives: missing, or a string (that is or is not JSON).
NoBody       == [kind |-> "none",    val |-> EmptyMap]
TextBody     == [kind |-> "text",    val |-> EmptyMap]   \* a string json.loads rejects
JsonOf(k, v) == [kind |-> "json",    val |-> [kind |-> k, val |-> v]]

RawBodies ==
    {NoBody, TextBody, JsonOf("list", EmptyMap), JsonOf("num", EmptyMap)}
      \cup {JsonOf("dict", o) : o \in Objects}

\* A caller names under itemId only identifiers it has seen, given those generated.
Sendable(raw, ids) ==
    (raw.kind = "json" /\ raw.val.kind = "dict" /\ "itemId" \in DOMAIN raw.val.val)
       => raw.val.val["itemId"][2] \in ids

\* json.loads on a string body; a string that does not parse stays a string.
ParseBody(raw) ==
    CASE raw.kind = "json" -> raw.val
      [] raw.kind = "text" -> [kind |-> "str", val |-> EmptyMap]
      [] OTHER             -> raw

\* `not body or not isinstance(body, dict)`: an empty dict is falsy.
InvalidBody(body) == body.kind # "dict" \/ DOMAIN body.val = {}

\* --------------------------------------------------------------- responses
Headers == [ContentType |-> "application/json", AccessControlAllowOrigin |-> "*"]

\* Mutant: a response without the CORS header.
ResponseWithoutCors(code, body) ==
    [statusCode |-> code, headers |-> [ContentType |-> "application/json"], body |-> body]

Response(code, body) == [statusCode |-> code, headers |-> Headers, body |-> body]

ErrorBody(msg) == [error |-> Str(msg)]

ErrorResponse(code, msg) == Response(code, ErrorBody(msg))

OkBody(item_id, msg) == [itemId |-> Str(item_id), message |-> Str(msg)]

\* The response of the handler's outermost except clause.
InternalError == ErrorResponse(500, "Internal server error")

\* ----------------------------------------------------------------- storage
\* The DynamoDB table: a function from the primary key (the string under
\* attribute itemId) to the stored item; a key outside DOMAIN is absent.
EmptyTable == [k \in {} |-> EmptyMap]

\* What a storage call can do for reasons outside the request: succeed, raise
\* botocore's ClientError, or raise anything else (a serializer TypeError, a
\* connection error).
StorageOutcomes == {"ok", "ClientError", "Error"}

KeyOf(item) == item["itemId"][2]

\* table.put_item(Item=item): unconditional, replaces what is under the key.
PutItem(t, item) ==
    [k \in DOMAIN t \cup {KeyOf(item)} |-> IF k = KeyOf(item) THEN item ELSE t[k]]

\* The boto3 resource hands numbers back as decimal.Decimal.
Deserialize(v) == IF v[1] = "num" THEN Dec(v[2]) ELSE v

\* table.get_item(Key=...): {'Item': ...} when the key is there, {} when not.
GetItem(t, key) ==
    IF key \in DOMAIN t
      THEN [found |-> TRUE,  Item |-> [a \in DOMAIN t[key] |-> Deserialize(t[key][a])]]
      ELSE [found |-> FALSE, Item |-> EmptyMap]

\* Mutant: the update expression sets updatedAt and nothing else.
UpdateExpressionStampOnly(obj, now) ==
    [updated_at |-> Num(now), fields |-> [k \in {} |-> Str("")]]

\* The update expression: `SET updatedAt = :updated_at` and one assignment per
\* body key except itemId and createdAt.
UpdateExpression(obj, now) ==
    [updated_at |-> Num(now),
     fields     |-> [k \in DOMAIN obj \ {"itemId", "createdAt"} |-> obj[k]]]

\* DynamoDB rejects an expression that assigns one path twice: a body key
\* updatedAt is assigned next to the handler's own `updatedAt = :updated_at`.
OverlappingPaths(expr) == "updatedAt" \in DOMAIN expr.fields

\* The body keys that are reserved words of DynamoDB's expression language.
\* The handler writes a key into the expression as it is (`name = :name`), and
\* DynamoDB rejects an expression that names an attribute by a reserved word.
ReservedWords == {"name"}

\* update_item raises ClientError (ValidationException) for such an expression.
RejectedExpression(expr) ==
    OverlappingPaths(expr) \/ DOMAIN expr.fields \cap ReservedWords # {}

\* Mutant: the update leaves the updatedAt of an item that has one.
UpdateItemKeepStamp(t, key, expr) ==
    LET old  == IF key \in DOMAIN t THEN t[key] ELSE [itemId |-> Str(key)]
        new  == [a \in DOMAIN old \cup DOMAIN expr.fields \cup {"updatedAt"} |->
                   IF a \in DOMAIN expr.fields THEN expr.fields[a]
                   ELSE IF a \in DOMAIN old THEN old[a]
                   ELSE expr.updated_at]
    IN  [k \in DOMAIN t \cup {key} |-> IF k = key THEN new ELSE t[k]]

\* Mutant: the update replaces the item instead of merging into it.
UpdateItemReplace(t, key, expr) ==
    LET new == [a \in {"itemId", "updatedAt"} \cup DOMAIN expr.fields |->
                  IF a \in DOMAIN expr.fields THEN expr.fields[a]
                  ELSE IF a = "updatedAt" THEN expr.updated_at
                  ELSE Str(key)]
    IN  [k \in DOMAIN t \cup {key} |-> IF k = key THEN new ELSE t[k]]

\* table.update_item(Key=..., UpdateExpression=SET ...) without a condition:
\* sets the attributes on the item, creating the item when the key is absent.
UpdateItem(t, key, expr) ==
    LET old  == IF key \in DOMAIN t THEN t[key] ELSE [itemId |-> Str(key)]
        new  == [a \in DOMAIN old \cup DOMAIN expr.fields \cup {"updatedAt"} |->
                   IF a \in DOMAIN expr.fields THEN expr.fields[a]
                   ELSE IF a = "updatedAt" THEN expr.updated_at
                   ELSE old[a]]
    IN  [k \in DOMAIN t \cup {key} |-> IF k = key THEN new ELSE t[k]]

\* table.delete_item(Key=...): unconditional.
DeleteItem(t, key) == [k \in DOMAIN t \ {key} |-> t[k]]

\* ---------------------------------------------------------------- handlers
\* A handler's result: raised says an exception left the handler; calls are
\* the storage calls it made, in order, each with its outcome.
Result(resp, t, calls) ==
    [response |-> resp, table |-> t, calls |-> calls, raised |-> FALSE]

Raised(t, calls) ==
    [response |-> InternalError, table |-> t, calls |-> calls, raised |-> TRUE]

\* The item handle_create_item builds: the five fields, then every body key
\* except name and description copied over them.
NewItem(obj, item_id, now) ==
    LET base == [itemId      |-> Str(item_id),
                 name        |-> obj["name"],
                 description |-> IF "description" \in DOMAIN obj
                                   THEN obj["description"] ELSE Str(""),
                 createdAt   |-> Num(now),
                 updatedAt   |-> Num(now)]
    IN  [k \in DOMAIN base \cup DOMAIN obj |->
           IF k \in DOMAIN obj \ {"name", "description"} THEN obj[k] ELSE base[k]]

\* Mutant: the object is stored before it is looked at for its name.
handle_create_item_eager(body, item_id, now, outcome, t) ==
    IF InvalidBody(body)
      THEN Result(ErrorResponse(400, "Invalid input: body must be a JSON object"), t, <<>>)
    ELSE IF "name" \notin DOMAIN body.val
      THEN Result(ErrorResponse(400, "Missing required field: name"),
                  PutItem(t, [k \in DOMAIN body.val \cup {"itemId"} |->
                                IF k = "itemId" THEN Str(item_id) ELSE body.val[k]]),
                  <<>>)
    ELSE CASE outcome = "ok" ->
                Result(Response(201, OkBody(item_id, "Item created successfully")),
                       PutItem(t, NewItem(body.val, item_id, now)), <<<<"put_item", outcome>>>>)
           [] outcome = "ClientError" ->
                Result(ErrorResponse(500, "Failed to create item"), t, <<<<"put_item", outcome>>>>)
           [] OTHER -> Raised(t, <<<<"put_item", outcome>>>>)

\* handle_create_item(body, request_id), with the identifier uuid4 returns, the
\* second time.time() reads and the outcome of put_item.
handle_create_item(body, item_id, now, outcome, t) ==
    IF InvalidBody(body)
      THEN Result(ErrorResponse(400, "Invalid input: body must be a JSON object"), t, <<>>)
    ELSE IF "name" \notin DOMAIN body.val
      THEN Result(ErrorResponse(400, "Missing required field: name"), t, <<>>)
    ELSE CASE outcome = "ok" ->
                Result(Response(201, OkBody(item_id, "Item created successfully")),
                       PutItem(t, NewItem(body.val, item_id, now)), <<<<"put_item", outcome>>>>)
           [] outcome = "ClientError" ->
                Result(ErrorResponse(500, "Failed to create item"), t, <<<<"put_item", outcome>>>>)
           [] OTHER -> Raised(t, <<<<"put_item", outcome>>>>)

\* json.dumps(item, default=str): a Decimal is not JSON-native and goes through str.
JsonDumps(item) ==
    [a \in DOMAIN item |-> IF item[a][1] = "dec" THEN DecStr(item[a][2]) ELSE item[a]]

\* Mutant: a lookup that finds nothing is answered 200 with an empty item.
handle_get_item_lenient(item_id, outcome, t) ==
    IF item_id = ""
      THEN Result(ErrorResponse(400, "Item ID is required"), t, <<>>)
    ELSE CASE outcome = "ok" ->
                Result(Response(200, JsonDumps(GetItem(t, item_id).Item)), t, <<<<"get_item", outcome>>>>)
           [] outcome = "ClientError" ->
                Result(ErrorResponse(500, "Failed to retrieve item"), t, <<<<"get_item", outcome>>>>)
           [] OTHER -> Raised(t, <<<<"get_item", outcome>>>>)

\* handle_get_item(item_id, request_id)
handle_get_item(item_id, outcome, t) ==
    IF item_id = ""
      THEN Result(ErrorResponse(400, "Item ID is required"), t, <<>>)
    ELSE CASE outcome = "ok" ->
                IF ~GetItem(t, item_id).found
                  THEN Result(ErrorResponse(404, "Item not found"), t, <<<<"get_item", outcome>>>>)
                  ELSE Result(Response(200, JsonDumps(GetItem(t, item_id).Item)), t, <<<<"get_item", outcome>>>>)
           [] outcome = "ClientError" ->
                Result(ErrorResponse(500, "Failed to retrieve item"), t, <<<<"get_item", outcome>>>>)
           [] OTHER -> Raised(t, <<<<"get_item", outcome>>>>)

\* Mutant: the handler goes on to the update without looking at the lookup's result.
UpdateFoundUnchecked(item_id, body, outcome, t) ==
    /\ item_id # ""
    /\ ~InvalidBody(body)
    /\ outcome = "ok"

\* handle_update_item(item_id, body, request_id) up to and including the
\* existence check: TRUE when the handler goes on to build the update.
UpdateFound(item_id, body, outcome, t) ==
    /\ item_id # ""
    /\ ~InvalidBody(body)
    /\ outcome = "ok"
    /\ GetItem(t, item_id).found

\* ... the response when it stops there.
handle_update_check(item_id, body, outcome, t) ==
    IF item_id = ""
      THEN Result(ErrorResponse(400, "Item ID is required for update"), t, <<>>)
    ELSE IF InvalidBody(body)
      THEN Result(ErrorResponse(400, "Invalid input: body must be a JSON object"), t, <<>>)
    ELSE CASE outcome = "ok" ->
                Result(ErrorResponse(404, "Item not found"), t, <<<<"get_item", outcome>>>>)
           [] outcome = "ClientError" ->
                Result(ErrorResponse(500, "Failed to update item"), t, <<<<"get_item", outcome>>>>)
           [] OTHER -> Raised(t, <<<<"get_item", outcome>>>>)

\* ... and from the update expression to the response, after the check found the item.
handle_update_apply(item_id, obj, now, outcome, t) ==
    LET expr  == UpdateExpression(obj, now)
        calls == <<<<"get_item", "ok">>,
                   <<"update_item", IF outcome = "ok" /\ RejectedExpression(expr)
                                      THEN "ValidationException" ELSE outcome>>>>
    IN  CASE outcome = "Error" -> Raised(t, calls)
          [] outcome = "ClientError" \/ RejectedExpression(expr) ->
                Result(ErrorResponse(500, "Failed to update item"), t, calls)
          [] OTHER ->
                Result(Response(200, OkBody(item_id, "Item updated successfully")),
                       UpdateItem(t, item_id, expr), calls)

\* Mutant: the handler goes on to the delete without looking at the lookup's result.
DeleteFoundUnchecked(item_id, outcome, t) ==
    /\ item_id # ""
    /\ outcome = "ok"

\* handle_delete_item(item_id, request_id), in the same two parts.
DeleteFound(item_id, outcome, t) ==
    /\ item_id # ""
    /\ outcome = "ok"
    /\ GetItem(t, item_id).found

\* Mutant: deleting what is not there counts as deleted.
handle_delete_check_idempotent(item_id, outcome, t) ==
    IF item_id = ""
      THEN Result(ErrorResponse(400, "Item ID is required for deletion"), t, <<>>)
    ELSE CASE outcome = "ok" ->
                Result(Response(200, OkBody(item_id, "Item deleted successfully")),
                       t, <<<<"get_item", outcome>>>>)
           [] outcome = "ClientError" ->
                Result(ErrorResponse(500, "Failed to delete item"), t, <<<<"get_item", outcome>>>>)
           [] OTHER -> Raised(t, <<<<"get_item", outcome>>>>)

handle_delete_check(item_id, outcome, t) ==
    IF item_id = ""
      THEN Result(ErrorResponse(400, "Item ID is required for deletion"), t, <<>>)
    ELSE CASE outcome = "ok" ->
                Result(ErrorResponse(404, "Item not found"), t, <<<<"get_item", outcome>>>>)
           [] outcome = "ClientError" ->
                Result(ErrorResponse(500, "Failed to delete item"), t, <<<<"get_item", outcome>>>>)
           [] OTHER -> Raised(t, <<<<"get_item", outcome>>>>)

\* Mutant: a delete call that fails is issued once more.
handle_delete_apply_retrying(item_id, outcome, t) ==
    LET calls == <<<<"get_item", "ok">>, <<"delete_item", outcome>>>>
    IN  CASE outcome = "ok" ->
                Result(Response(200, OkBody(item_id, "Item deleted successfully")),
                       DeleteItem(t, item_id), calls)
          [] outcome = "ClientError" ->
                Result(Response(200, OkBody(item_id, "Item deleted successfully")),
                       DeleteItem(t, item_id), Append(calls, <<"delete_item", "ok">>))
          [] OTHER -> Raised(t, calls)

handle_delete_apply(item_id, outcome, t) ==
    LET calls == <<<<"get_item", "ok">>, <<"delete_item", outcome>>>>
    IN  CASE outcome = "ok" ->
                Result(Response(200, OkBody(item_id, "Item deleted successfully")),
                       DeleteItem(t, item_id), calls)
          [] outcome = "ClientError" ->
                Result(ErrorResponse(500, "Failed to delete item"), t, calls)
          [] OTHER -> Raised(t, calls)

\* handler(event, context) around a handler's result: the response it returns
\* and the metric it hands to publish_custom_metrics.
handler(r) ==
    [response |-> IF r.raised THEN InternalError ELSE r.response,
     metric   |-> IF r.raised THEN "InvocationErrors" ELSE "SuccessfulInvocations"]

\* ------------------------------------------------------------------- state
VARIABLES
    table,     \* the DynamoDB table
    clock,     \* what int(time.time()) returns now
    issued,    \* number of identifiers uuid4 has generated
    writes,    \* number of Create, Update and Delete requests sent so far
    pc,        \* per caller: "idle", or "update" / "delete" between the
               \* existence check and the mutation of its request
    pending,   \* per caller: the identifier and body of that request
    response,  \* the response of the request that completed last
    done,      \* that request: operation, identifier, body shape,
               \* storage calls with their outcomes, metric published
    live,      \* history: keys a Create has put and no Delete has deleted since
    deleted,   \* history: keys a Delete answered 200 for, no Create put since
    hist       \* history: per identifier returned by a Create, what was
               \* submitted, which requests have targeted it since (stage), and
               \* the seconds its Create (t0) and its one Update (t1) read

\* One invocation of handler(event, context) looked at on its own:
VARIABLES
    event,     \* the API Gateway event it is given
    env,       \* what its storage calls and its calls of the log and metric
               \* sink do
    status     \* "pending" before the invocation, then "returned" or "raised"

vars == <<table, clock, issued, writes, pc, pending, response, done, live, deleted, hist,
          event, env, status>>

NoPending  == [item_id |-> "", obj |-> EmptyMap]
NoResponse == Response(0, EmptyMap)
NoRequest  == [op |-> "none", item_id |-> "", kind |-> "none", empty |-> TRUE,
               named |-> FALSE, reserved |-> FALSE, calls |-> <<>>, metric |-> ""]

\* No single invocation is singled out.
NoEvent == [method |-> "", path |-> <<>>, pathParameters |-> [null |-> TRUE, map |-> [k \in {} |-> ""]],
            body |-> NoBody]
NoEnv   == [storage |-> <<>>, sink |-> {}]

\* Identifiers generated so far, and those a caller can ask for.
IssuedIds == {Uuid(i) : i \in 1..issued}

Init ==
    /\ table = EmptyTable
    /\ clock = 1
    /\ issued = 0
    /\ writes = 0
    /\ pc = [p \in Callers |-> "idle"]
    /\ pending = [p \in Callers |-> NoPending]
    /\ response = NoResponse
    /\ done = NoRequest
    /\ live = {}
    /\ deleted = {}
    /\ hist = [i \in {} |-> [stage |-> "none", name |-> Str(""), plain |-> FALSE,
                            description |-> Str(""), t0 |-> 0, t1 |-> 0]]
    /\ event = NoEvent
    /\ env = NoEnv
    /\ status = "none"

\* A request completes with result r.  Of the body, done keeps its kind,
\* whether it has no keys, key name, and key itemId or createdAt.
Complete(op, item_id, body, r) ==
    /\ response' = handler(r).response
    /\ done' = [op |-> op, item_id |-> item_id, kind |-> body.kind,
                empty |-> DOMAIN body.val = {},
                named |-> "name" \in DOMAIN body.val,
                reserved |-> DOMAIN body.val \cap {"itemId", "createdAt"} # {},
                calls |-> r.calls, metric |-> handler(r).metric]
    /\ table' = r.table

\* hist with the requests on identifier i forgotten as a clean sequence.
Disturb(h, i) ==
    [j \in DOMAIN h |-> IF j = i THEN [h[j] EXCEPT !.stage = "other"] ELSE h[j]]

\* Caller p sends a Create, Update or Delete request.
Write(p) ==
    /\ pc[p] = "idle"
    /\ writes < MaxWrites
    /\ writes' = writes + 1

\* time.time() moves on.
Tick ==
    /\ clock < MaxClock
    /\ clock' = clock + 1
    /\ UNCHANGED <<table, issued, writes, pc, pending, response, done, live, deleted, hist>>
    /\ UNCHANGED <<event, env, status>>

\* POST /items
Create(p, raw, outcome) ==
    LET body    == ParseBody(raw)
        valid   == ~InvalidBody(body) /\ "name" \in DOMAIN body.val
        item_id == Uuid(issued + 1)
        r       == handle_create_item(body, item_id, clock, outcome, table)
        key     == KeyOf(NewItem(body.val, item_id, clock))
        stored  == valid /\ outcome = "ok"
    IN  /\ Write(p)
        /\ Sendable(raw, IssuedIds)
        /\ IF valid THEN issued < MaxItems ELSE outcome = "ok"
        /\ Complete("Create", "", body, r)
        /\ issued' = IF valid THEN issued + 1 ELSE issued
        /\ live' = IF stored THEN live \cup {key} ELSE live
        /\ deleted' = IF stored THEN deleted \ {key} ELSE deleted
        /\ hist' = IF stored
                     THEN [j \in DOMAIN hist \cup {item_id} |->
                             IF j = item_id
                               THEN [stage |-> "created", name |-> body.val["name"],
                                     plain |-> DOMAIN body.val = {"name"},
                                     description |-> Str(""), t0 |-> clock, t1 |-> 0]
                               ELSE IF j = key THEN [hist[j] EXCEPT !.stage = "other"]
                               ELSE hist[j]]
                     ELSE hist
        /\ UNCHANGED <<clock, pc, pending, event, env, status>>

\* GET /items/{id}
Get(p, item_id, outcome) ==
    /\ pc[p] = "idle"
    /\ item_id = "" => outcome = "ok"
    /\ Complete("Get", item_id, NoBody, handle_get_item(item_id, outcome, table))
    /\ UNCHANGED <<clock, issued, writes, pc, pending, live, deleted, hist>>
    /\ UNCHANGED <<event, env, status>>

\* PUT /items/{id}: validation and the existence check.
UpdateCheck(p, item_id, raw, outcome) ==
    LET body == ParseBody(raw)
    IN  /\ Write(p)
        /\ Sendable(raw, IssuedIds)
        /\ (item_id = "" \/ InvalidBody(body)) => outcome = "ok"
        /\ IF UpdateFound(item_id, body, outcome, table)
             THEN /\ pc' = [pc EXCEPT ![p] = "update"]
                  /\ pending' = [pending EXCEPT ![p] = [item_id |-> item_id, obj |-> body.val]]
                  /\ UNCHANGED <<table, response, done>>
             ELSE /\ Complete("Update", item_id, body,
                              handle_update_check(item_id, body, outcome, table))
                  /\ UNCHANGED <<pc, pending>>
        /\ hist' = IF item_id \in DOMAIN hist
                     THEN [hist EXCEPT ![item_id].stage =
                             IF /\ @ = "created"
                                /\ UpdateFound(item_id, body, outcome, table)
                                /\ DOMAIN body.val = {"description"}
                               THEN "updating" ELSE "other",
                             ![item_id].description =
                               IF "description" \in DOMAIN body.val
                                 THEN body.val["description"] ELSE @]
                     ELSE hist
        /\ UNCHANGED <<clock, issued, live, deleted, event, env, status>>

\* PUT /items/{id}: the update call and the response.
UpdateApply(p, outcome) ==
    LET item_id == pending[p].item_id
        obj     == pending[p].obj
        r       == handle_update_apply(item_id, obj, clock, outcome, table)
    IN  /\ pc[p] = "update"
        /\ Complete("Update", item_id, [kind |-> "dict", val |-> obj], r)
        /\ pc' = [pc EXCEPT ![p] = "idle"]
        /\ pending' = [pending EXCEPT ![p] = NoPending]
        /\ hist' = IF item_id \in DOMAIN hist
                     THEN [hist EXCEPT ![item_id].stage =
                             IF @ = "updating" /\ r.response.statusCode = 200 /\ ~r.raised
                               THEN "updated" ELSE "other",
                             ![item_id].t1 = clock]
                     ELSE hist
        /\ UNCHANGED <<clock, issued, writes, live, deleted, event, env, status>>

\* DELETE /items/{id}: validation and the existence check.
DeleteCheck(p, item_id, outcome) ==
    /\ Write(p)
    /\ item_id = "" => outcome = "ok"
    /\ IF DeleteFound(item_id, outcome, table)
         THEN /\ pc' = [pc EXCEPT ![p] = "delete"]
              /\ pending' = [pending EXCEPT ![p] = [item_id |-> item_id, obj |-> EmptyMap]]
              /\ UNCHANGED <<table, response, done>>
         ELSE /\ Complete("Delete", item_id, NoBody,
                          handle_delete_check(item_id, outcome, table))
              /\ UNCHANGED <<pc, pending>>
    /\ hist' = Disturb(hist, item_id)
    /\ UNCHANGED <<clock, issued, live, deleted, event, env, status>>

\* DELETE /items/{id}: the delete call and the response.
DeleteApply(p, outcome) ==
    LET item_id == pending[p].item_id
        r       == handle_delete_apply(item_id, outcome, table)
    IN  /\ pc[p] = "delete"
        /\ Complete("Delete", item_id, NoBody, r)
        /\ pc' = [pc EXCEPT ![p] = "idle"]
        /\ pending' = [pending EXCEPT ![p] = NoPending]
        /\ live' = IF outcome = "ok" THEN live \ {item_id} ELSE live
        /\ deleted' = IF outcome = "ok" THEN deleted \cup {item_id} ELSE deleted
        /\ hist' = Disturb(hist, item_id)
        /\ UNCHANGED <<clock, issued, writes, event, env, status>>

RequestIds == IssuedIds \cup {ForeignId, ""}

Next ==
    \/ Tick
    \/ \E p \in Callers, raw \in RawBodies, o \in StorageOutcomes :
          Create(p, raw, o)
    \/ \E p \in Callers, i \in RequestIds, o \in StorageOutcomes : Get(p, i, o)
    \/ \E p \in Callers, i \in RequestIds, raw \in RawBodies,
          o \in StorageOutcomes :
          UpdateCheck(p, i, raw, o)
    \/ \E p \in Callers, o \in StorageOutcomes : UpdateApply(p, o)
    \/ \E p \in Callers, i \in RequestIds, o \in StorageOutcomes : DeleteCheck(p, i, o)
    \/ \E p \in Callers, o \in StorageOutcomes : DeleteApply(p, o)

Spec == Init /\ [][Next]_vars

\* --------------------------------------------------------- one invocation
MaxEventKeys   == 1   \* keys of the body object of a single invocation
MaxLogFailures == 1   \* log calls that fail during a single invocation

\* event['httpMethod']
Methods == {"GET", "POST", "PUT", "DELETE", "PATCH"}

\* event['path'] as path.split('/') sees it: "/items/uuid-1" is
\* <<"", "items", "uuid-1">>, "/items/" is <<"", "items", "">>, "" is <<"">>.
Paths ==
    {<<"">>,
     <<"", "items">>,
     <<"", "items", "">>,
     <<"", "items", Uuid(1)>>,
     <<"", "items", ForeignId>>,
     <<"", "items", Uuid(1), "items">>,
     <<"", "prod", "items">>,
     <<"", "health">>}

\* event['pathParameters']: null, or a map that has key id or has not.
ParamsOf(m) == [null |-> FALSE, map |-> m]
PathParameters ==
    {[null |-> TRUE, map |-> [k \in {} |-> ""]], ParamsOf([k \in {} |-> ""])}
      \cup {ParamsOf([k \in {"id"} |-> i]) : i \in {"", Uuid(1)}}

\* A body that is the JSON text null: json.loads gives None.
NullBody == JsonOf("null", EmptyMap)

\* event['body'] of a single invocation.
EventBodies ==
    {raw \in RawBodies \cup {NullBody} :
        (raw.kind = "json" /\ raw.val.kind = "dict")
           => Cardinality(DOMAIN raw.val.val) <= MaxEventKeys}

Events ==
    [method : Methods, path : Paths, pathParameters : PathParameters, body : EventBodies]

\* path.endswith('/items')
EndsWithItems(path) == Len(path) >= 2 /\ path[Len(path)] = "items"

\* '/items/' in path
ContainsItems(path) == \E i \in 2..(Len(path) - 1) : path[i] = "items"

\* Mutant: GET on the collection path is routed to the Get handler as well.
RouteCollectionGet(method, path) ==
    IF method = "POST" /\ EndsWithItems(path) THEN "Create"
    ELSE IF method = "GET" /\ (ContainsItems(path) \/ EndsWithItems(path)) THEN "Get"
    ELSE IF method = "PUT" /\ ContainsItems(path) THEN "Update"
    ELSE IF method = "DELETE" /\ ContainsItems(path) THEN "Delete"
    ELSE "Unmatched"

\* The routing of handler: the first rule that matches.
Route(method, path) ==
    IF method = "POST" /\ EndsWithItems(path) THEN "Create"
    ELSE IF method = "GET" /\ ContainsItems(path) THEN "Get"
    ELSE IF method = "PUT" /\ ContainsItems(path) THEN "Update"
    ELSE IF method = "DELETE" /\ ContainsItems(path) THEN "Delete"
    ELSE "Unmatched"

\* The identifier read from the path alone.
ItemIdFromPath(params, path) == path[Len(path)]

\* path_parameters.get('id') or path.split('/')[-1]
ItemId(params, path) ==
    IF "id" \in DOMAIN params.map /\ params.map["id"] # ""
      THEN params.map["id"] ELSE path[Len(path)]

\* handle_update_item and handle_delete_item from entry to return; o1 is what
\* the existence check does and o2 what the mutation does.
handle_update_item(item_id, body, now, o1, o2, t) ==
    IF UpdateFound(item_id, body, o1, t)
      THEN handle_update_apply(item_id, body.val, now, o2, t)
      ELSE handle_update_check(item_id, body, o1, t)

handle_delete_item(item_id, o1, o2, t) ==
    IF DeleteFound(item_id, o1, t)
      THEN handle_delete_apply(item_id, o2, t)
      ELSE handle_delete_check(item_id, o1, t)

\* The else branch of the routing.
UnsupportedRoute(t) == Result(ErrorResponse(404, "Not found"), t, <<>>)

\* The calls of the log and metric sink an invocation makes: the log of the
\* incoming request, the one log call of the route taken (every return of a
\* handle_* function and the else branch log once), the log of the processed
\* request, the log of the outer except clause, and publish_custom_metrics.
LogCalls  == {"incoming", "handler", "processed", "error"}
SinkCalls == LogCalls \cup {"metric"}

\* The route's result: a log call that fails raises from where it stands,
\* after the storage calls of the route.
Dispatch(e, v, t, new_id, now) ==
    LET body  == ParseBody(e.body)
        id    == ItemId(e.pathParameters, e.path)
        route == Route(e.method, e.path)
        r     == CASE route = "Create" ->
                        handle_create_item(body, new_id, now, v.storage[1], t)
                   [] route = "Get" -> handle_get_item(id, v.storage[1], t)
                   [] route = "Update" ->
                        handle_update_item(id, body, now, v.storage[1], v.storage[2], t)
                   [] route = "Delete" ->
                        handle_delete_item(id, v.storage[1], v.storage[2], t)
                   [] OTHER -> UnsupportedRoute(t)
    IN  IF ~r.raised /\ "handler" \in v.sink THEN Raised(r.table, r.calls) ELSE r

\* The names the body of handle_create_item can resolve: its two parameters,
\* its locals and the globals of the module.  context is a parameter of
\* handler and of no other function.
CreateScope ==
    {"body", "request_id", "item_id", "timestamp", "item", "success_log",
     "start_time", "processing_time", "json", "uuid", "time", "datetime",
     "logger", "table", "ClientError", "publish_custom_metrics"}

\* try: publish_custom_metrics(context.function_name, 'ProcessingTime', ...)
\* except: pass.  The arguments are evaluated before the call; a name that does
\* not resolve raises NameError, which the bare except swallows, and
\* publish_custom_metrics is not entered.
ProcessingTimeMetric ==
    IF "context" \in CreateScope THEN <<"ProcessingTime">> ELSE <<>>

\* The metrics handed to publish_custom_metrics while the handle_* function
\* runs: handle_create_item reaches its publish past a put_item that succeeded
\* and the log of the success; no other function has one.
CreateMetrics(r) ==
    IF ~r.raised /\ r.calls = <<<<"put_item", "ok">>>> THEN ProcessingTimeMetric ELSE <<>>

\* handler(event, context) from entry to exit.  returned is FALSE when an
\* exception leaves it; metrics are the counters handed to
\* publish_custom_metrics, which keeps its own failure to itself.
Invocation(e, v, t, new_id, now) ==
    LET r0 == Dispatch(e, v, t, new_id, now)
        r  == [r0 EXCEPT !.raised = @ \/ "processed" \in v.sink]
    IN  IF "incoming" \in v.sink
          THEN [returned |-> FALSE, response |-> NoResponse, table |-> t,
                calls |-> <<>>, metrics |-> <<>>]
        ELSE IF r.raised /\ "error" \in v.sink
          THEN [returned |-> FALSE, response |-> NoResponse, table |-> r.table,
                calls |-> r.calls, metrics |-> <<>>]
        ELSE [returned |-> TRUE, response |-> handler(r).response, table |-> r.table,
              calls |-> r.calls, metrics |-> CreateMetrics(r0) \o <<handler(r).metric>>]

\* What the two storage calls of an invocation do.
StorageEnvs ==
    {<<"ok", "ok">>, <<"ok", "ClientError">>, <<"ok", "Error">>,
     <<"ClientError", "ok">>, <<"Error", "ok">>}

\* The sink calls that fail: at most n of the log calls.
SinkEnvs(n) == {F \in SUBSET SinkCalls : Cardinality(F \cap LogCalls) <= n}

\* The table before the invocation: empty, or holding the item a Create with
\* body {name} at second 1 and an Update with body {description} have left.
OneItem ==
    UpdateItem(PutItem(EmptyTable, NewItem([name |-> Str("A")], Uuid(1), 1)),
               Uuid(1), UpdateExpression([description |-> Str("B")], 1))

InitialTables == {EmptyTable, OneItem}

InitInvocation(sinks) ==
    /\ table \in InitialTables
    /\ clock \in 1..MaxClock
    /\ issued = Cardinality(DOMAIN table)
    /\ writes = 0
    /\ pc = [p \in Callers |-> "idle"]
    /\ pending = [p \in Callers |-> NoPending]
    /\ response = NoResponse
    /\ done = NoRequest
    /\ live = DOMAIN table
    /\ deleted = {}
    /\ hist = [i \in DOMAIN table |->
                 [stage |-> "other", name |-> Str("A"), plain |-> TRUE,
                  description |-> Str("B"), t0 |-> 1, t1 |-> 1]]
    /\ event \in {e \in Events : Sendable(e.body, DOMAIN table)}
    /\ env \in [storage : StorageEnvs, sink : sinks]
    /\ status = "pending"

\* The log sink works; the metric sink may fail.
InitEvent == InitInvocation(SinkEnvs(0))

\* Log calls may fail too.
InitSink == InitInvocation(SinkEnvs(MaxLogFailures))

\* The invocation runs.
Invoke ==
    LET inv  == Invocation(event, env, table, Uuid(issued + 1), clock)
        body == ParseBody(event.body)
        obj  == IF body.kind = "dict" THEN body.val ELSE EmptyMap
    IN  /\ status = "pending"
        /\ status' = IF inv.returned THEN "returned" ELSE "raised"
        /\ response' = inv.response
        /\ table' = inv.table
        /\ done' = [op |-> Route(event.method, event.path),
                    item_id |-> ItemId(event.pathParameters, event.path),
                    kind |-> body.kind,
                    empty |-> DOMAIN obj = {},
                    named |-> "name" \in DOMAIN obj,
                    reserved |-> DOMAIN obj \cap {"itemId", "createdAt"} # {},
                    calls |-> inv.calls,
                    metric |-> IF inv.metrics = <<>> THEN ""
                                 ELSE inv.metrics[Len(inv.metrics)],
                    metrics |-> inv.metrics]
        /\ UNCHANGED <<clock, issued, writes, pc, pending, live, deleted, hist, event, env>>

NextInvocation == Invoke

SpecEvent == InitEvent /\ [][NextInvocation]_vars

SpecSink == InitSink /\ [][NextInvocation]_vars

\* -------------------------------------------------------------- properties
LookupOk == <<<<"get_item", "ok">>>>

\* C1: every Create that passes validation and whose put succeeds answers 201
\* with a non-empty itemId, and a Get of that itemId issued next (no other
\* request on that identifier in between) returns 200 with the submitted name
\* and createdAt equal to updatedAt.
C1_CreateThenGet ==
    /\ (done.op = "Create" /\ response.statusCode = 201)
          => response.body["itemId"] # Str("")
    /\ (/\ done.op = "Get"
        /\ done.calls = LookupOk
        /\ done.item_id \in DOMAIN hist
        /\ hist[done.item_id].stage = "created")
          => /\ response.statusCode = 200
             /\ response.body["name"] = hist[done.item_id].name
             /\ response.body["createdAt"] = response.body["updatedAt"]

\* C2: an item is in storage if and only if a Create for it succeeded and no
\* Delete for it has succeeded since, also when an Update and a Delete of
\* the item interleave between the existence check and the mutation.
C2_InStorageIffCreatedAndNotDeleted == DOMAIN table = live

\* C3: no Create overwrites or alters an item that is already in storage: its
\* put always targets a key that is absent.
C3_CreateNeverOverwrites ==
    [][(done'.op = "Create" /\ writes' = writes + 1)
         => \A k \in DOMAIN table : k \in DOMAIN table' /\ table'[k] = table[k]]_vars

\* C4: every item in storage has createdAt <= updatedAt.
C4_CreatedNotAfterUpdated ==
    \A k \in DOMAIN table :
        {"createdAt", "updatedAt"} \subseteq DOMAIN table[k]
          => table[k]["createdAt"][2] <= table[k]["updatedAt"][2]

\* C5: an Update on an existing item whose body has key itemId or createdAt
\* leaves the stored itemId and createdAt as they were, and, unless the storage
\* backend fails, is answered 200 with the other body keys set on the item.
C5_UpdateKeepsIdAndCreatedAt ==
    [][\A p \in Callers :
         (/\ pc[p] = "update"
          /\ pc'[p] = "idle"
          /\ pending[p].item_id \in DOMAIN table
          /\ DOMAIN pending[p].obj \cap {"itemId", "createdAt"} # {})
         => LET i   == pending[p].item_id
                obj == pending[p].obj
            IN  /\ i \in DOMAIN table'
                /\ table'[i]["itemId"] = table[i]["itemId"]
                /\ "createdAt" \in DOMAIN table[i] <=> "createdAt" \in DOMAIN table'[i]
                /\ "createdAt" \in DOMAIN table[i]
                     => table'[i]["createdAt"] = table[i]["createdAt"]
                /\ done'.calls[2][2] \in {"ok", "ValidationException"}
                     => /\ response' = Response(200, OkBody(i, "Item updated successfully"))
                        /\ \A k \in DOMAIN obj \ {"itemId", "createdAt"} :
                              k \in DOMAIN table'[i] /\ table'[i][k] = obj[k]]_vars

\* The Get of C6: the identifier came from a Create with body {name}, then one
\* Update with body {description} was answered 200, and nothing else targeted it.
C6_Case ==
    /\ done.op = "Get"
    /\ done.calls = LookupOk
    /\ done.item_id \in DOMAIN hist
    /\ hist[done.item_id].stage = "updated"
    /\ hist[done.item_id].plain

Has(body, k, v) == k \in DOMAIN body /\ body[k] = v

\* C6 as claimed: that Get returns name A, description B and updatedAt
\* strictly greater than createdAt.
C6_Original ==
    C6_Case =>
        /\ response.statusCode = 200
        /\ Has(response.body, "name", hist[done.item_id].name)
        /\ Has(response.body, "description", hist[done.item_id].description)
        /\ response.body["updatedAt"][2] > response.body["createdAt"][2]

\* C6 (amended): that Get returns name A, description B, createdAt the second
\* the Create read and updatedAt the second the Update read: updatedAt is at
\* least createdAt, and greater exactly when the clock had moved on in between.
C6_MergeThenGet ==
    C6_Case =>
        /\ response.statusCode = 200
        /\ Has(response.body, "name", hist[done.item_id].name)
        /\ Has(response.body, "description", hist[done.item_id].description)
        /\ Has(response.body, "createdAt", DecStr(hist[done.item_id].t0))
        /\ Has(response.body, "updatedAt", DecStr(hist[done.item_id].t1))
        /\ response.body["updatedAt"][2] >= response.body["createdAt"][2]

\* C6 witness: such a Get after a Create and an Update within one second.
C6_Witness ==
    /\ C6_Case
    /\ response.statusCode = 200
    /\ response.body["description"] = Str("B")
    /\ response.body["updatedAt"] = response.body["createdAt"]

\* A request was sent in this step and was answered in it.
Answered == writes' = writes + 1 /\ pc' = pc

\* C7: an Update with a non-empty identifier that is not in storage and a body
\* that passes validation is answered 404 "Item not found", makes no update
\* call and leaves storage without an item under that identifier.
C7_UpdateOfMissingIs404 ==
    [][writes' = writes + 1 =>
         /\ \A p \in Callers :
               (pc[p] = "idle" /\ pc'[p] = "update")
                  => pending'[p].item_id \in DOMAIN table
         /\ (/\ Answered
             /\ done'.op = "Update"
             /\ done'.item_id \notin DOMAIN table \cup {""}
             /\ done'.kind = "dict"
             /\ ~done'.empty
             /\ \A c \in 1..Len(done'.calls) : done'.calls[c][2] = "ok")
               => /\ response' = ErrorResponse(404, "Item not found")
                  /\ done'.calls = LookupOk
                  /\ table' = table
                  /\ done'.item_id \notin DOMAIN table']_vars

\* C7 witness: an Update of an identifier nobody created was answered 404.
C7_Witness ==
    /\ done.op = "Update"
    /\ done.kind = "dict"
    /\ done.item_id = ForeignId
    /\ done.calls = LookupOk
    /\ response.statusCode = 404
    /\ ForeignId \notin DOMAIN table

\* C8: a Delete of an identifier in storage is answered 200 with the
\* identifier and "Item deleted successfully", and a Get of that identifier
\* afterwards, no Create in between, is answered 404.
C8_DeleteThenGet ==
    /\ (/\ done.op = "Delete"
        /\ Len(done.calls) = 2
        /\ done.calls[2] = <<"delete_item", "ok">>)
          => response = Response(200, OkBody(done.item_id, "Item deleted successfully"))
    /\ (/\ done.op = "Get"
        /\ done.calls = LookupOk
        /\ done.item_id \in deleted)
          => response.statusCode = 404

\* C9: a Delete of a non-empty identifier that is not in storage is answered
\* 404 "Item not found" (500 when the lookup fails), never 200, and makes no
\* delete call.
C9_DeleteOfMissingIs404 ==
    [][writes' = writes + 1 =>
         /\ \A p \in Callers :
               (pc[p] = "idle" /\ pc'[p] = "delete")
                  => pending'[p].item_id \in DOMAIN table
         /\ (/\ Answered
             /\ done'.op = "Delete"
             /\ done'.item_id \notin DOMAIN table \cup {""})
               => /\ response'.statusCode \in {404, 500}
                  /\ Len(done'.calls) = 1
                  /\ done'.calls[1][1] = "get_item"
                  /\ done'.calls[1][2] = "ok"
                        => response' = ErrorResponse(404, "Item not found")
                  /\ table' = table]_vars

\* C9 witness: a Delete of an identifier nobody created was answered 404.
C9_Witness ==
    /\ done.op = "Delete"
    /\ done.item_id = ForeignId
    /\ done.calls = LookupOk
    /\ response = ErrorResponse(404, "Item not found")
    /\ ForeignId \notin DOMAIN table

\* C10: a Create whose body is an object without key name is answered 400
\* "Missing required field: name" and makes no storage call.
C10_CreateWithoutName ==
    [][(/\ Answered
        /\ done'.op = "Create"
        /\ done'.kind = "dict"
        /\ ~done'.named)
         => /\ response' = ErrorResponse(400, "Missing required field: name")
            /\ done'.calls = <<>>
            /\ table' = table]_vars

\* C11: Create answers a body that is not a JSON object (absent, null, text
\* that does not parse, an array, a number) with 400 "Invalid input: body must
\* be a JSON object", every JSON object without key name, of any size, with 400
\* "Missing required field: name", and makes a storage call only for an
\* object that has key name.
C11_CreateValidationOrder ==
    (status = "returned" /\ done.op = "Create") =>
        /\ done.kind # "dict" =>
              /\ response = ErrorResponse(400, "Invalid input: body must be a JSON object")
              /\ done.calls = <<>>
        /\ (done.kind = "dict" /\ ~done.named) =>
              /\ response = ErrorResponse(400, "Missing required field: name")
              /\ done.calls = <<>>
        /\ done.calls # <<>> => (done.kind = "dict" /\ done.named)

\* C12: a Get with a non-empty identifier that no Create has ever put, whose
\* lookup succeeds, is answered 404 with a body holding an error field; the
\* handler returns (it counts the invocation as successful) and storage is as
\* it was.
C12_GetOfNeverCreatedIs404 ==
    [][(/\ writes' = writes
        /\ pc' = pc
        /\ clock' = clock
        /\ done'.op = "Get"
        /\ done'.item_id \notin live \cup deleted \cup {""}
        /\ done'.calls = LookupOk)
         => /\ response'.statusCode = 404
            /\ DOMAIN response'.body = {"error"}
            /\ done'.metric = "SuccessfulInvocations"
            /\ table' = table]_vars

\* C12 witness: with an item in storage, a Get of an identifier nobody
\* created was answered 404.
C12_Witness ==
    /\ done.op = "Get"
    /\ done.item_id = ForeignId
    /\ done.calls = LookupOk
    /\ response = ErrorResponse(404, "Item not found")
    /\ table # EmptyTable

\* C13: a Get of an identifier in storage, whose lookup succeeds, is answered
\* 200 with the stored item as its body: the same attributes, each with its
\* stored value, and itemId the identifier asked for.
C13_GetReturnsStoredItem ==
    (/\ done.op = "Get"
     /\ done.calls = LookupOk
     /\ done.item_id \in DOMAIN table)
      => /\ response.statusCode = 200
         /\ DOMAIN response.body = DOMAIN table[done.item_id]
         /\ Has(response.body, "itemId", Str(done.item_id))
         /\ \A a \in DOMAIN table[done.item_id] :
               Has(response.body, a, table[done.item_id][a])

\* The invocation runs in this step.
Invoked == status = "pending" /\ status' # "pending"

\* C14: a request that is neither a POST on a path ending in /items nor a GET,
\* PUT or DELETE on a path containing /items/ is answered 404 with body
\* {"error": "Not found"} and makes no storage call.
C14_UnmatchedRouteIs404 ==
    [][(/\ Invoked
        /\ ~(event.method = "POST" /\ EndsWithItems(event.path))
        /\ ~(event.method \in {"GET", "PUT", "DELETE"} /\ ContainsItems(event.path)))
         => /\ status' = "returned"
            /\ response' = ErrorResponse(404, "Not found")
            /\ done'.calls = <<>>
            /\ table' = table]_vars

\* C14 witness: a POST on an item path, with the item in storage, was answered
\* 404 "Not found".
C14_Witness ==
    /\ status = "returned"
    /\ event.method = "POST"
    /\ event.path = <<"", "items", Uuid(1)>>
    /\ table = OneItem
    /\ response = ErrorResponse(404, "Not found")

\* The message of an operation whose storage call failed.
FailureMessage(op) ==
    CASE op = "Create" -> "Failed to create item"
      [] op = "Get"    -> "Failed to retrieve item"
      [] op = "Update" -> "Failed to update item"
      [] OTHER         -> "Failed to delete item"

BackendErrors == {"ClientError", "ValidationException"}

\* C15: when a storage call of a request fails with a backend error, the
\* response is 500 with the message of the operation and no storage call
\* follows the failed one; no request makes a storage call twice.
C15_StorageFailureIs500NoRetry ==
    status # "pending" =>
        /\ \A c \in 1..Len(done.calls) :
              done.calls[c][2] \in BackendErrors
                 => /\ status = "returned"
                    /\ response = ErrorResponse(500, FailureMessage(done.op))
                    /\ c = Len(done.calls)
        /\ \A c, d \in 1..Len(done.calls) :
              done.calls[c][1] = done.calls[d][1] => c = d

\* C15 witness: an Update whose update call failed after the existence check
\* found the item was answered 500 "Failed to update item".
C15_Witness ==
    /\ status = "returned"
    /\ done.op = "Update"
    /\ done.calls = <<<<"get_item", "ok">>, <<"update_item", "ClientError">>>>
    /\ response = ErrorResponse(500, "Failed to update item")
    /\ table = OneItem

\* The handle_* function of the invocation failed with a failure it does not
\* convert: a storage call raised something other than ClientError, or the
\* log call of the route raised.
HandlerFailed ==
    \/ \E c \in 1..Len(done.calls) : done.calls[c][2] = "Error"
    \/ "handler" \in env.sink

\* C16: when the handle_* function the handler dispatched to fails with a
\* failure it does not convert, the handler still returns: status 500, body
\* {"error": "Internal server error"}, the two headers, with InvocationErrors
\* handed to publish_custom_metrics; nothing is raised to the caller.
C16_UnexpectedFailureIs500 ==
    (/\ status # "pending"
     /\ "incoming" \notin env.sink
     /\ HandlerFailed)
      => /\ status = "returned"
         /\ response = [statusCode |-> 500, headers |-> Headers,
                        body |-> [error |-> Str("Internal server error")]]
         /\ done.metric = "InvocationErrors"

\* C17: whichever calls of the log and metric sink fail during an invocation,
\* the handler returns the response, and storage gets the contents, that the
\* same invocation gives when every sink call succeeds.
C17_SinkFailureChangesNothing ==
    [][Invoked =>
         LET ref == Invocation(event, [env EXCEPT !.sink = {}], table,
                               Uuid(issued + 1), clock)
         IN  /\ status' = "returned"
             /\ response' = ref.response
             /\ table' = ref.table]_vars

\* The error messages of the program.
FixedMessages ==
    {Str(m) : m \in {"Invalid input: body must be a JSON object",
                     "Missing required field: name",
                     "Item ID is required",
                     "Item ID is required for update",
                     "Item ID is required for deletion",
                     "Item not found",
                     "Not found",
                     "Failed to create item",
                     "Failed to retrieve item",
                     "Failed to update item",
                     "Failed to delete item",
                     "Internal server error"}}

\* C18: every response the handler returns has status 200, 201, 400, 404 or
\* 500 and exactly the headers Content-Type: application/json and
\* Access-Control-Allow-Origin: *; with status 400, 404 or 500 its body is an
\* object with the single key error holding one of the fixed messages.
C18_HeadersAndErrorBodies ==
    status = "returned" =>
        /\ response.statusCode \in {200, 201, 400, 404, 500}
        /\ response.headers =
              [ContentType |-> "application/json", AccessControlAllowOrigin |-> "*"]
        /\ response.statusCode \in {400, 404, 500} =>
              /\ DOMAIN response.body = {"error"}
              /\ response.body["error"] \in FixedMessages

\* C18 witness: the response of the outer except clause, returned for a
\* request on which the processed-request log call raised.
C18_Witness ==
    /\ status = "returned"
    /\ "processed" \in env.sink
    /\ response.statusCode = 500
    /\ response.body = [error |-> Str("Internal server error")]
    /\ response.headers = Headers

\* C19: an Update answered 200 on an item that is in storage when the update
\* call runs is a partial merge: every body key other than itemId and
\* createdAt then holds the body's value, every attribute that is not a body
\* key, other than updatedAt, keeps its value, and no other attribute appears.
C19_UpdateIsPartialMerge ==
    [][\A p \in Callers :
         (/\ pc[p] = "update"
          /\ pc'[p] = "idle"
          /\ pending[p].item_id \in DOMAIN table
          /\ response'.statusCode = 200)
         => LET i   == pending[p].item_id
                obj == pending[p].obj
            IN  /\ i \in DOMAIN table'
                /\ \A k \in DOMAIN obj \ {"itemId", "createdAt"} :
                      Has(table'[i], k, obj[k])
                /\ \A a \in DOMAIN table[i] \ (DOMAIN obj \cup {"updatedAt"}) :
                      Has(table'[i], a, table[i][a])
                /\ DOMAIN table'[i] \subseteq
                      DOMAIN table[i] \cup DOMAIN obj \cup {"updatedAt"}]_vars

\* C19 witness: an Update with body {description} was answered 200 and the
\* item has the new description next to the name it was created with.
C19_Witness ==
    /\ done.op = "Update"
    /\ ~done.named
    /\ ~done.reserved
    /\ response.statusCode = 200
    /\ done.item_id \in live
    /\ done.item_id \in DOMAIN table
    /\ Has(table[done.item_id], "name", Str("A"))
    /\ Has(table[done.item_id], "description", Str("B"))
    /\ "createdAt" \in DOMAIN table[done.item_id]

\* C20: after every Update answered 200, the stored item's updatedAt is the
\* second the handler read during that Update, whatever the body's keys.
C20_UpdatedAtIsClockOfUpdate ==
    [][\A p \in Callers :
         (/\ pc[p] = "update"
          /\ pc'[p] = "idle"
          /\ response'.statusCode = 200)
         => /\ pending[p].item_id \in DOMAIN table'
            /\ Has(table'[pending[p].item_id], "updatedAt", Num(clock))]_vars

\* C20 witness: an item created in second 1 was updated in second 2 and has
\* updatedAt 2.
C20_Witness ==
    /\ done.op = "Update"
    /\ response.statusCode = 200
    /\ clock = 2
    /\ done.item_id \in DOMAIN table
    /\ Has(table[done.item_id], "createdAt", Num(1))
    /\ Has(table[done.item_id], "updatedAt", Num(2))

\* C21: Update answers an empty identifier with 400 whatever the body is;
\* otherwise a body that is not a JSON object with 400 "Invalid input: body
\* must be a JSON object", whether or not the item is in storage, without a
\* storage call; and for every JSON object, of any size, it goes on to the
\* existence check.
C21_UpdateValidationOrder ==
    (status = "returned" /\ done.op = "Update") =>
        /\ done.item_id = "" =>
              /\ response = ErrorResponse(400, "Item ID is required for update")
              /\ done.calls = <<>>
        /\ (done.item_id # "" /\ done.kind # "dict") =>
              /\ response = ErrorResponse(400, "Invalid input: body must be a JSON object")
              /\ done.calls = <<>>
        /\ (done.item_id # "" /\ done.kind = "dict") =>
              /\ done.calls # <<>>
              /\ done.calls[1][1] = "get_item"

\* The operation the routing rules give a method and a path, tried in order:
\* POST on a path whose final segment is items; then GET, PUT and DELETE on a
\* path with an items segment followed by at least one more segment.
RuleFor(method, path) ==
    LET n      == Len(path)
        suffix == n >= 2 /\ path[n] = "items"
        scoped == \E i \in 2..(n - 1) : path[i] = "items"
    IN  CASE method = "POST" /\ suffix -> "Create"
          [] method = "GET" /\ scoped -> "Get"
          [] method = "PUT" /\ scoped -> "Update"
          [] method = "DELETE" /\ scoped -> "Delete"
          [] OTHER -> "Unmatched"

\* The answers of Get, Update and Delete to an empty identifier.
MissingIdentifier ==
    {ErrorResponse(400, "Item ID is required"),
     ErrorResponse(400, "Item ID is required for update"),
     ErrorResponse(400, "Item ID is required for deletion")}

\* A request whose operation is the one the rules give and whose handler was
\* handed the identifier id: only the empty identifier is refused as missing.
RoutedWith(id) ==
    /\ done.op = RuleFor(event.method, event.path)
    /\ done.op \in {"Get", "Update", "Delete"} =>
          /\ done.item_id = id
          /\ status = "returned" => (response \in MissingIdentifier <=> id = "")

\* C22: the router maps every method, path and path-parameter map to exactly
\* one of Create, Get, Update, Delete, Unmatched by the fixed rules in order,
\* and Get, Update and Delete are handed the path-parameter map's id whenever
\* the map has the key id, else the final path segment.
C22_Original ==
    status # "pending" =>
        LET m == event.pathParameters.map
        IN  RoutedWith(IF "id" \in DOMAIN m THEN m["id"]
                       ELSE event.path[Len(event.path)])

\* C22 (amended): as above, but the map's id is used only when it is not the
\* empty string; an empty id in the map gives way to the final path segment,
\* as a missing one does.
C22_RouteAndIdentifier ==
    status # "pending" =>
        LET m == event.pathParameters.map
        IN  RoutedWith(IF "id" \in DOMAIN m /\ m["id"] # "" THEN m["id"]
                       ELSE event.path[Len(event.path)])

\* A Get that found the item named by the path-parameter map, on a path whose
\* final segment names another item.
C22_Witness ==
    /\ status = "returned"
    /\ done.op = "Get"
    /\ "id" \in DOMAIN event.pathParameters.map
    /\ event.pathParameters.map["id"] = Uuid(1)
    /\ event.path[Len(event.path)] = ForeignId
    /\ response.statusCode = 200

\* C23: every Create whose put_item succeeded has, when its 201 is returned,
\* handed the observability sink a count metric and, separately, a
\* processing-duration metric of that create.
C23_CreateEmitsCountAndTiming ==
    (status = "returned" /\ done.op = "Create" /\ response.statusCode = 201) =>
        /\ done.calls = <<<<"put_item", "ok">>>>
        /\ \E i \in 1..Len(done.metrics) : done.metrics[i] = "SuccessfulInvocations"
        /\ \E i \in 1..Len(done.metrics) : done.metrics[i] = "ProcessingTime"

\* The names of the storage calls a request made, in the order it made them.
CallNames(d) == [i \in 1..Len(d.calls) |-> d.calls[i][1]]

\* The sequences of storage calls an operation may make.
AllowedCalls(op) ==
    CASE op = "Create" -> {<<>>, <<"put_item">>}
      [] op = "Get" -> {<<>>, <<"get_item">>}
      [] op = "Update" -> {<<>>, <<"get_item">>, <<"get_item", "update_item">>}
      [] op = "Delete" -> {<<>>, <<"get_item">>, <<"get_item", "delete_item">>}
      [] OTHER -> {<<>>}

\* A request its handler turns away before any storage call.
FailsValidation(d) ==
    CASE d.op = "Create" -> d.kind # "dict" \/ ~d.named
      [] d.op = "Update" -> d.item_id = "" \/ d.kind # "dict"
      [] d.op \in {"Get", "Delete"} -> d.item_id = ""
      [] OTHER -> FALSE

\* C24: each request makes a bounded, ordered sequence of storage calls:
\* Create at most one put; Get at most one get; Update at most one get and then
\* at most one update; Delete at most one get and then at most one delete.
\* The mutation of an Update or Delete is called only after the get succeeded
\* and the item was in storage; a request that fails validation, is answered
\* 400, or is unmatched makes no storage call.
C24_BoundedOrderedStorageCalls ==
    [][Invoked =>
        /\ CallNames(done') \in AllowedCalls(done'.op)
        /\ Len(done'.calls) = 2 =>
              /\ done'.calls[1] = <<"get_item", "ok">>
              /\ done'.item_id \in DOMAIN table
        /\ (FailsValidation(done') \/ done'.op = "Unmatched") => done'.calls = <<>>
        /\ (status' = "returned" /\ response'.statusCode = 400) => done'.calls = <<>>
      ]_vars

\* A Delete whose check found the item and whose delete was called once.
C24_Witness ==
    /\ status = "returned"
    /\ done.op = "Delete"
    /\ done.calls = <<<<"get_item", "ok">>, <<"delete_item", "ok">>>>
    /\ response.statusCode = 200

\* C25: with the Deletes of several callers interleaved at single storage
\* calls, each created item has at most one Delete answered 200 "Item deleted
\* successfully": a Delete is answered 200 only for an identifier that no
\* Delete has been answered 200 for since a Create last stored it; every other
\* Delete of it is answered 404, or 500 on a backend error.
C25_AtMostOneDeleteSucceeds ==
    [][\A p \in 1..NumCallers :
          (pc[p] = "delete" /\ pc'[p] = "idle") =>
              /\ done'.op = "Delete"
              /\ response'.statusCode \in {200, 500}
              /\ response'.statusCode = 200 => pending[p].item_id \notin deleted
      ]_vars

\* C26: storage changes only through a Create, Update or Delete that passed
\* validation and, for Update and Delete, whose existence check succeeded and
\* found the item; every Get, every unmatched request and every request
\* answered 400 or 404 leaves the contents of storage as they were.
C26_StorageFrame ==
    [][Invoked =>
        /\ table' # table =>
              /\ done'.op \in {"Create", "Update", "Delete"}
              /\ ~FailsValidation(done')
              /\ done'.op \in {"Update", "Delete"} =>
                    /\ done'.item_id \in DOMAIN table
                    /\ done'.calls # <<>>
                    /\ done'.calls[1] = <<"get_item", "ok">>
        /\ done'.op \in {"Get", "Unmatched"} => table' = table
        /\ (status' = "returned" /\ response'.statusCode \in {400, 404}) => table' = table
      ]_vars

\* An Update answered 200 that left storage with contents no invocation starts from.
C26_Witness ==
    /\ status = "returned"
    /\ done.op = "Update"
    /\ response.statusCode = 200
    /\ table \notin InitialTables

====
